---------------------------- MODULE Spec2Model ----------------------------
(***************************************************************************)
(* Model of the permit library (src/src/index.ts): the schema compiler     *)
(* createSchema and the permit evaluator generatePermit.                   *)
(*                                                                         *)
(* Values of the program are represented as follows.                       *)
(*   string            a TLA+ string                                       *)
(*   schema value      [kind |-> "string", text |-> s]                     *)
(*                     [kind |-> "object", entries |-> <<[key, val], ..>>] *)
(*                       its own properties in the order they were written *)
(*                     [kind |-> "array", items |-> <<AccessNode, ..>>]    *)
(*                       an array of objects {$scope, $description}        *)
(*   AccessNode        [kind |-> "node", scope |-> s, description |-> d]   *)
(*   AccessBranch      [kind |-> "branch", childs |-> <<[key, val], ..>>,  *)
(*                      proto |-> the prototype of childs, model |-> the   *)
(*                      schema value it was compiled from]                 *)
(*   PermitNode        [kind |-> "node", scope |-> s, description |-> d]   *)
(*   PermitBranch      [kind |-> "branch", branch |-> the AccessBranch the *)
(*                      getters close over, childs |-> <<[key, val], ..>>] *)
(*   $value (the Map)  a function from the set of its keys to BOOLEAN      *)
(* A schema value is a string, an object or an array of objects that have  *)
(* a string $scope and a string $description, as a JSON document gives     *)
(* them; a key may be any string, "__proto__" and the names of the         *)
(* library's own properties included.                                      *)
(***************************************************************************)
EXTENDS Integers, Sequences, FiniteSets, TLC

\* ------------------------------------------------------------------ bounds
\* longest granted list handed to $permit
MaxGranted == 2
\* most scopes in one variadic grant / deny call
MaxArgs == 2
\* object identities available for predicate-tree snapshots
NumIds == 3
\* longest granted list of the runs in which the caller keeps a snapshot
MaxGrantedHeld == 1

\* ----------------------------------------------------------- JS primitives
\* the characters String.prototype.trim removes, of those a string of a
\* module can hold: tab, line feed, vertical tab, form feed, carriage
\* return, space, U+00A0, U+1680 and U+FEFF (the space separators from
\* U+2000 on, U+2028 and U+2029 cannot be written in a string here)
WhiteSpace == {"\t", "\n", "", "\f", "\r", " ", " ", " ", "﻿"}

\* s.trim() === ""
TrimIsEmpty(s) == \A i \in 1..Len(s) : SubSeq(s, i, i) \in WhiteSpace

\* key.startsWith("$")
startsWithDollar(key) == Len(key) >= 1 /\ SubSeq(key, 1, 1) = "$"

\* Array.prototype.includes
Includes(list, x) == \E i \in DOMAIN list : list[i] = x

\* Array.prototype.join
RECURSIVE Join(_, _)
Join(parts, sep) ==
  IF Len(parts) = 0 THEN ""
  ELSE IF Len(parts) = 1 THEN parts[1]
  ELSE parts[1] \o sep \o Join(Tail(parts), sep)

\* the decimal digits, by value
Digits == "0123456789"

IsDigit(ch) == ch \in {"0", "1", "2", "3", "4", "5", "6", "7", "8", "9"}

\* the value of a decimal digit
DigitValue(ch) == CHOOSE d \in 0..9 : SubSeq(Digits, d + 1, d + 1) = ch

\* a < b for two strings of digits of one length, read as numbers
RECURSIVE DigitsLess(_, _)
DigitsLess(a, b) ==
  IF Len(a) = 0 THEN FALSE
  ELSE IF SubSeq(a, 1, 1) # SubSeq(b, 1, 1)
       THEN DigitValue(SubSeq(a, 1, 1)) < DigitValue(SubSeq(b, 1, 1))
       ELSE DigitsLess(SubSeq(a, 2, Len(a)), SubSeq(b, 2, Len(b)))

\* a < b for two canonical numeric strings (no leading zero), read as numbers
NumLess(a, b) == Len(a) < Len(b) \/ (Len(a) = Len(b) /\ DigitsLess(a, b))

\* the key is an array index, a canonical numeric string below 2^32 - 1:
\* for..in visits such keys first, in ascending order
IsIndexKey(key) ==
  /\ Len(key) \in 1..10
  /\ \A i \in 1..Len(key) : IsDigit(SubSeq(key, i, i))
  /\ (Len(key) = 1 \/ SubSeq(key, 1, 1) # "0")
  /\ NumLess(key, "4294967295")

\* entries with index keys, ascending
RECURSIVE SortByIndex(_)
SortByIndex(entries) ==
  IF Len(entries) = 0 THEN <<>>
  ELSE
    LET m == CHOOSE i \in DOMAIN entries :
               \A j \in DOMAIN entries : ~NumLess(entries[j].key, entries[i].key)
    IN <<entries[m]>>
         \o SortByIndex(SubSeq(entries, 1, m - 1) \o SubSeq(entries, m + 1, Len(entries)))

ForIn_as_written(entries) == entries

\* for (const key in object): the entries of the object in the order visited
ForIn(entries) ==
  SortByIndex(SelectSeq(entries, LAMBDA e : IsIndexKey(e.key)))
    \o SelectSeq(entries, LAMBDA e : ~IsIndexKey(e.key))

\* typeof cursor[name] === "string" for a schema value
HasStringProp(cursor, name) ==
  /\ cursor.kind = "object"
  /\ \E i \in DOMAIN cursor.entries :
       cursor.entries[i].key = name /\ cursor.entries[i].val.kind = "string"

\* cursor[name], when it is a string
StringProp(cursor, name) ==
  LET i == CHOOSE j \in DOMAIN cursor.entries :
             cursor.entries[j].key = name /\ cursor.entries[j].val.kind = "string"
  IN cursor.entries[i].val.text

\* -------------------------------------------------------- schema compiler
generateScope_no_filter(paths, spacer) == Join(paths, spacer)

\* paths.filter((p) => p && p.trim() !== "").join(spacer)
generateScope(paths, spacer) ==
  Join(SelectSeq(paths, LAMBDA p : Len(p) > 0 /\ ~TrimIsEmpty(p)), spacer)

\* no object: the prototype of a childs object that was never given one,
\* and a property that does not exist
NoValue == [kind |-> "none"]

RECURSIVE generateAccess(_, _, _, _)

\* what the for..in loop of generateAccess assigns to childs[key] for the
\* schema value cursor
generateChild(key, cursor, scope, spacer) ==
  IF cursor.kind = "string" THEN
    [kind |-> "node",
     scope |-> generateScope(<<scope, key>>, spacer),
     description |-> cursor.text]
  ELSE IF HasStringProp(cursor, "$scope") THEN
    [kind |-> "node",
     scope |-> StringProp(cursor, "$scope"),
     description |-> IF HasStringProp(cursor, "$description")
                     THEN StringProp(cursor, "$description") ELSE ""]
  ELSE IF cursor.kind # "array" THEN
    generateAccess(key, cursor, scope, spacer)
  ELSE cursor

generateChilds_no_override(entries, scope, spacer) ==
  LET own == SelectSeq(entries, LAMBDA e : e.key # "__proto__")
  IN [i \in DOMAIN own |->
        [key |-> own[i].key,
         val |-> IF own[i].val.kind = "string" THEN
                   [kind |-> "node",
                    scope |-> generateScope(<<scope, own[i].key>>, spacer),
                    description |-> own[i].val.text]
                 ELSE IF own[i].val.kind # "array" THEN
                   generateAccess(own[i].key, own[i].val, scope, spacer)
                 ELSE own[i].val]]

\* the for..in loop of generateAccess that fills childs: the own properties
\* childs has after it. The assignment childs["__proto__"] = value defines
\* no property: it sets the prototype of childs (childsProto).
generateChilds(entries, scope, spacer) ==
  LET own == SelectSeq(entries, LAMBDA e : e.key # "__proto__")
  IN [i \in DOMAIN own |->
        [key |-> own[i].key,
         val |-> generateChild(own[i].key, own[i].val, scope, spacer)]]

\* the prototype childs has after the loop: the value assigned under the key
\* "__proto__" (always an object: a node, a branch or an array), or none
childsProto(entries, scope, spacer) ==
  IF \E i \in DOMAIN entries : entries[i].key = "__proto__"
  THEN LET i == CHOOSE j \in DOMAIN entries : entries[j].key = "__proto__"
       IN generateChild("__proto__", entries[i].val, scope, spacer)
  ELSE NoValue

\* the context object generateAccess returns: its childs (spread into it),
\* the prototype of childs (each walks childs, inherited keys included) and
\* the schema node its $model getter copies
generateAccess(id, node, path, spacer) ==
  LET scope == generateScope(<<path, id>>, spacer)
  IN [kind |-> "branch",
      childs |-> generateChilds(ForIn(node.entries), scope, spacer),
      proto |-> childsProto(ForIn(node.entries), scope, spacer),
      model |-> node]

\* the properties the context literal defines before ...childs, in order
BranchBuiltins == <<"$scopes", "$model", "$each", "$permit", "toJSON">>

IsBuiltin(key) == \E i \in DOMAIN BranchBuiltins : BranchBuiltins[i] = key

\* the branch has a child under the key
HasChild(branch, key) == \E i \in DOMAIN branch.childs : branch.childs[i].key = key

Child(branch, key) ==
  branch.childs[CHOOSE i \in DOMAIN branch.childs : branch.childs[i].key = key].val

\* branch[key] for an own key of the context: the child of that name, which
\* the spread puts in place of a getter or method of the same name, or else
\* the value of the getter or the method
Get(branch, key) ==
  IF HasChild(branch, key) THEN Child(branch, key)
  ELSE IF IsBuiltin(key) THEN [kind |-> "builtin", name |-> key, model |-> branch.model]
  ELSE NoValue

\* for (const key in branch) over a context: its own enumerable properties
\* with their values, in the order visited
Props(branch) ==
  SelectSeq(branch.childs, LAMBDA e : IsIndexKey(e.key))
    \o [i \in DOMAIN BranchBuiltins |->
          [key |-> BranchBuiltins[i], val |-> Get(branch, BranchBuiltins[i])]]
    \o SelectSeq(branch.childs, LAMBDA e : ~IsIndexKey(e.key) /\ ~IsBuiltin(e.key))

\* typeof cursor.$scope === "string" && typeof cursor.$description === "string":
\* an AccessNode, or the copy the $model getter makes of a schema node that
\* has both as strings
IsAccessNode(cursor) ==
  \/ cursor.kind = "node"
  \/ /\ cursor.kind = "builtin"
     /\ cursor.name = "$model"
     /\ HasStringProp(cursor.model, "$scope")
     /\ HasStringProp(cursor.model, "$description")

\* the $scope and $description read from such a cursor
AsAccessNode(cursor) ==
  IF cursor.kind = "node" THEN cursor
  ELSE [kind |-> "node",
        scope |-> StringProp(cursor.model, "$scope"),
        description |-> StringProp(cursor.model, "$description")]

\* cursor instanceof Array: a pass-through array or the value of $scopes
IsArray(cursor) ==
  cursor.kind = "array" \/ (cursor.kind = "builtin" /\ cursor.name = "$scopes")

\* cursor instanceof Function: one of the methods of a context
IsFunction(cursor) ==
  cursor.kind = "builtin" /\ cursor.name \in {"$each", "$permit", "toJSON"}

\* cursor.$each instanceof Function: a branch whose $each is still the method
HasEach(cursor) == cursor.kind = "branch" /\ ~HasChild(cursor, "$each")

\* String(n) for an array index
RECURSIVE IndexToString(_)
IndexToString(n) ==
  IF n < 10 THEN SubSeq(Digits, n + 1, n + 1)
  ELSE IndexToString(n \div 10) \o SubSeq(Digits, (n % 10) + 1, (n % 10) + 1)

\* for (const key in childs) of each: the own properties of childs, then the
\* enumerable properties of its prototype that no own key hides (of an
\* array, its elements under their indices)
ChildsForIn(branch) ==
  LET hidden(e) == HasChild(branch, e.key)
      inherited ==
        IF branch.proto.kind = "branch" THEN Props(branch.proto)
        ELSE IF branch.proto.kind = "array" THEN
          [i \in DOMAIN branch.proto.items |->
             [key |-> IndexToString(i - 1), val |-> branch.proto.items[i]]]
        ELSE IF branch.proto.kind = "node" THEN
          <<[key |-> "$scope", val |-> [kind |-> "string", text |-> branch.proto.scope]],
            [key |-> "$description",
             val |-> [kind |-> "string", text |-> branch.proto.description]]>>
        ELSE <<>>
  IN branch.childs \o SelectSeq(inherited, LAMBDA e : ~hidden(e))

each_direct_only(branch) ==
  LET direct == SelectSeq(branch.childs, LAMBDA e : e.val.kind = "node")
  IN [i \in DOMAIN direct |-> direct[i].val]

\* each(fn) of a branch: the AccessNodes it hands to fn, in order
RECURSIVE each(_)
RECURSIVE eachOver(_)
eachOver(list) ==
  IF Len(list) = 0 THEN <<>>
  ELSE
    LET cursor == list[1].val
    IN (IF IsAccessNode(cursor) THEN <<AsAccessNode(cursor)>>
        ELSE IF HasEach(cursor) THEN each(cursor)
        ELSE <<>>)
       \o eachOver(Tail(list))
each(branch) == eachOver(ChildsForIn(branch))

\* the $scopes getter of an AccessBranch
scopes(branch) == each(branch)

\* the list the loops of $some, $none and $all run over: branch.$scopes,
\* which is a child when the schema has a key "$scopes". An array there was
\* passed through as written and its elements are what the loops visit; a
\* leaf or a branch is no list and i < scopes.length is false from the start
loopScopes(branch) ==
  IF ~HasChild(branch, "$scopes") THEN scopes(branch)
  ELSE IF Child(branch, "$scopes").kind = "array" THEN Child(branch, "$scopes").items
  ELSE <<>>

\* i < scopes.length throws a TypeError (cannot convert object to primitive
\* value): the child under "$scopes" is a branch whose child "length" is a
\* branch with a child "toString", which is no function; valueOf, inherited
\* or a child, gives no primitive either
loopScopesThrows(branch) ==
  /\ HasChild(branch, "$scopes")
  /\ Child(branch, "$scopes").kind = "branch"
  /\ HasChild(Child(branch, "$scopes"), "length")
  /\ Child(Child(branch, "$scopes"), "length").kind = "branch"
  /\ HasChild(Child(Child(branch, "$scopes"), "length"), "toString")

createSchema(schema, prefix, spacer) == generateAccess(prefix, schema, "", spacer)

\* createSchema throws a TypeError (the module runs in strict mode): a key
\* "$scopes" or "$model" is assigned to a childs object whose prototype, set
\* by an earlier key "__proto__", is a context that has that name as a getter
RECURSIVE generateAccessThrows(_, _, _, _)
generateAccessThrows(id, node, path, spacer) ==
  LET scope == generateScope(<<path, id>>, spacer)
      entries == ForIn(node.entries)
      nested(e) == e.val.kind = "object" /\ ~HasStringProp(e.val, "$scope")
  IN \E j \in DOMAIN entries :
       \/ nested(entries[j]) /\ generateAccessThrows(entries[j].key, entries[j].val, scope, spacer)
       \/ /\ entries[j].key \in {"$scopes", "$model"}
          /\ \E i \in 1..(j - 1) :
               /\ entries[i].key = "__proto__"
               /\ nested(entries[i])
               /\ ~HasChild(generateAccess("__proto__", entries[i].val, scope, spacer),
                            entries[j].key)

\* access.k1.k2...: the branch reached from access by the keys of path
RECURSIVE Member(_, _)
Member(branch, path) ==
  IF Len(path) = 0 THEN branch
  ELSE Member(Child(branch, path[1]), Tail(path))

\* ------------------------------------------------------------ fixtures
Str(s) == [kind |-> "string", text |-> s]
Obj(entries) == [kind |-> "object", entries |-> entries]
E(key, val) == [key |-> key, val |-> val]
Arr(items) == [kind |-> "array", items |-> items]

\* the todo part of the schema of the repository's test, with one action
SchemaTodo ==
  Obj(<<E("todo", Obj(<<E("view", Obj(<<E("$scope", Str("@view"))>>)),
                        E("action", Obj(<<E("create", Str("Create new todo"))>>))>>))>>)

\* a tree with an empty nested branch beside two leaves
SchemaGap ==
  Obj(<<E("a", Str("A")),
        E("e", Obj(<<>>)),
        E("b", Obj(<<E("c", Str("C"))>>))>>)

\* a tree without any leaf
SchemaBare == Obj(<<E("e", Obj(<<>>))>>)

\* two overrides with the same scope, a branch under a $ key, a pass-through array
SchemaOdd ==
  Obj(<<E("x", Obj(<<E("$scope", Str("dup")), E("$description", Str("first"))>>)),
        E("y", Obj(<<E("$scope", Str("dup")), E("$description", Obj(<<>>))>>)),
        E("$z", Obj(<<E("w", Str("W"))>>)),
        E("list", Arr(<<>>))>>)

\* the todo subtree of SchemaTodo, compiled on its own
SchemaTodoOnly ==
  Obj(<<E("view", Obj(<<E("$scope", Str("@view"))>>)),
        E("action", Obj(<<E("create", Str("Create new todo"))>>))>>)

\* a key of white space only above a leaf
SchemaBlank == Obj(<<E(" ", Obj(<<E("k", Str("K"))>>))>>)

\* an integer key written after a name that holds a branch
SchemaNum == Obj(<<E("b", Obj(<<E("c", Str("C"))>>)), E("1", Str("one"))>>)

\* schema, options and the branch $permit is called on
Fixtures ==
  << [schema |-> SchemaTodo, prefix |-> "",  spacer |-> ".", sub |-> <<>>],
     [schema |-> SchemaGap,  prefix |-> "",  spacer |-> ".", sub |-> <<>>],
     [schema |-> SchemaBare, prefix |-> "",  spacer |-> ".", sub |-> <<>>],
     [schema |-> SchemaOdd,  prefix |-> "@", spacer |-> "-", sub |-> <<>>],
     [schema |-> SchemaTodo, prefix |-> "",  spacer |-> ".", sub |-> <<"todo", "action">>],
     [schema |-> SchemaTodoOnly, prefix |-> "", spacer |-> ".", sub |-> <<>>],
     [schema |-> SchemaBlank, prefix |-> "",  spacer |-> ".", sub |-> <<>>],
     [schema |-> SchemaNum,  prefix |-> "",  spacer |-> ".", sub |-> <<>>] >>

\* a scope string no fixture generates
Unknown == "zz"

Range(list) == {list[i] : i \in DOMAIN list}

\* the scope strings of a list of AccessNodes
ScopeSet(nodes) == {nodes[i].scope : i \in DOMAIN nodes}

\* lists of at most n elements of S, none of them twice, in every order
ListsUpTo(S, n) ==
  UNION {{l \in [1..k -> S] : \A i, j \in 1..k : l[i] = l[j] => i = j} : k \in 0..n}

\* the elements of S in one fixed order
Listed(S) == CHOOSE q \in [1..Cardinality(S) -> S] : Range(q) = S

\* the lists of at most n elements of S that follow the order of Listed(S)
SublistsUpTo(S, n) ==
  LET q == Listed(S)
      Pick(I) == CHOOSE l \in [1..Cardinality(I) -> I] :
                   \A a, b \in 1..Cardinality(I) : a < b => l[a] < l[b]
  IN {[k \in 1..Cardinality(I) |-> q[Pick(I)[k]]] :
        I \in {J \in SUBSET (1..Cardinality(S)) : Cardinality(J) <= n}}

\* the scope strings a caller of fixture f may pass: those of the whole
\* compiled tree, those listed under its $scopes property and an unknown one
Universe(f) ==
  ScopeSet(scopes(createSchema(f.schema, f.prefix, f.spacer)))
    \cup ScopeSet(loopScopes(createSchema(f.schema, f.prefix, f.spacer)))
    \cup {Unknown}

\* --------------------------------------------------------- the $value Map
EmptyMap == [k \in {} |-> FALSE]

\* $value.set(k, v)
MapSet(c, k, v) == [x \in DOMAIN c \cup {k} |-> IF x = k THEN v ELSE c[x]]

\* $value.get(k) ?? false
GetOrFalse(c, k) == IF k \in DOMAIN c THEN c[k] ELSE FALSE

\* ------------------------------------------------------- permit evaluator
VARIABLES
  input,     \* what the caller passed: schema, prefix, spacer, the branch $permit
             \* was called on and the contents of the granted array at that time
  other,     \* a second permit created from the same AccessBranch, or NoPermit
  access,    \* the AccessBranch generatePermit closes over
  granted,   \* the granted array generatePermit closes over
  value,     \* $value
  permit,    \* the current PermitBranch: [id |-> object identity, root |-> tree]
  held,      \* a reference to `is` kept by the caller, with what it read then
  lastCall   \* the latest call on the permit and what it returned

vars == <<input, other, access, granted, value, permit, held, lastCall>>

NoSnap == [kind |-> "none"]

NoPermit == [kind |-> "none"]

generateNode(scope, description) ==
  [kind |-> "node", scope |-> scope, description |-> description]

\* get $ok(): $value.get(scope) ?? false
ok(node, c) == IF node.scope \in DOMAIN c THEN c[node.scope] ELSE FALSE

no_missing_negation(node, c) == IF node.scope \in DOMAIN c THEN c[node.scope] ELSE FALSE

\* get $no(): !$value.get(scope) ?? false, where ! binds first and !undefined is true
no(node, c) == IF node.scope \in DOMAIN c THEN ~c[node.scope] ELSE TRUE

RECURSIVE generate(_)
RECURSIVE generatePermitChilds(_)

\* the for..in loop of generate that fills childs, over the properties of
\* the AccessBranch (its getters and methods included)
generatePermitChilds(props) ==
  IF Len(props) = 0 THEN <<>>
  ELSE
    LET key == props[1].key
        cursor == props[1].val
    IN (IF IsAccessNode(cursor) THEN
          <<[key |-> key,
             val |-> generateNode(AsAccessNode(cursor).scope,
                                  AsAccessNode(cursor).description)]>>
        ELSE IF /\ ~startsWithDollar(key)
                /\ ~IsArray(cursor)
                /\ ~IsFunction(cursor)
                /\ HasEach(cursor) THEN
          <<[key |-> key, val |-> generate(cursor)]>>
        ELSE <<>>)
       \o generatePermitChilds(Tail(props))

\* the PermitBranch of an AccessBranch: its getters read branch, and its
\* childs are spread into it after them
generate(branch) ==
  [kind |-> "branch", branch |-> branch, childs |-> generatePermitChilds(Props(branch))]

\* every PermitNode of a predicate tree, in key order
RECURSIVE Leaves(_)
RECURSIVE LeavesOf(_)
LeavesOf(childs) ==
  IF Len(childs) = 0 THEN <<>>
  ELSE (IF childs[1].val.kind = "node" THEN <<childs[1].val>>
        ELSE Leaves(childs[1].val))
       \o LeavesOf(Tail(childs))
Leaves(pb) == LeavesOf(pb.childs)

\* every PermitBranch of a predicate tree, the root first
RECURSIVE Branches(_)
RECURSIVE BranchesOf(_)
BranchesOf(childs) ==
  IF Len(childs) = 0 THEN <<>>
  ELSE (IF childs[1].val.kind = "branch" THEN Branches(childs[1].val) ELSE <<>>)
       \o BranchesOf(Tail(childs))
Branches(pb) == <<pb>> \o BranchesOf(pb.childs)

RECURSIVE someLoop_seeds_true(_, _, _, _)
someLoop_seeds_true(list, i, c, g) ==
  IF i > Len(list) THEN [res |-> FALSE, value |-> c, out |-> "value"]
  ELSE
    LET s == list[i].scope
        c2 == IF s \notin DOMAIN c THEN MapSet(c, s, TRUE) ELSE c
    IN IF c2[s] THEN [res |-> TRUE, value |-> c2, out |-> "value"]
       ELSE someLoop_seeds_true(list, i + 1, c2, g)

\* the loop of get $some() from index i on: its result and the Map it leaves
RECURSIVE someLoop(_, _, _, _)
someLoop(list, i, c, g) ==
  IF i > Len(list) THEN [res |-> FALSE, value |-> c, out |-> "value"]
  ELSE
    LET s == list[i].scope
        seeded == s \notin DOMAIN c
        c2 == IF seeded THEN MapSet(c, s, Includes(g, s)) ELSE c
    IN IF seeded /\ Includes(g, s) THEN [res |-> TRUE, value |-> c2, out |-> "value"]
       ELSE IF c2[s] THEN [res |-> TRUE, value |-> c2, out |-> "value"]
       ELSE someLoop(list, i + 1, c2, g)

\* the loop of get $none()
RECURSIVE noneLoop(_, _, _, _)
noneLoop(list, i, c, g) ==
  IF i > Len(list) THEN [res |-> TRUE, value |-> c, out |-> "value"]
  ELSE
    LET s == list[i].scope
        seeded == s \notin DOMAIN c
        c2 == IF seeded THEN MapSet(c, s, Includes(g, s)) ELSE c
    IN IF seeded /\ Includes(g, s) THEN [res |-> FALSE, value |-> c2, out |-> "value"]
       ELSE IF c2[s] THEN [res |-> FALSE, value |-> c2, out |-> "value"]
       ELSE noneLoop(list, i + 1, c2, g)

\* the loop of get $all(), with the test of $value.size after it
RECURSIVE allLoop(_, _, _, _)
allLoop(list, i, c, g) ==
  IF i > Len(list) THEN
    [res |-> IF Cardinality(DOMAIN c) = 0 THEN FALSE ELSE TRUE, value |-> c,
     out |-> "value"]
  ELSE
    LET s == list[i].scope
        seeded == s \notin DOMAIN c
        c2 == IF seeded THEN MapSet(c, s, Includes(g, s)) ELSE c
    IN IF seeded /\ ~Includes(g, s) THEN [res |-> FALSE, value |-> c2, out |-> "value"]
       ELSE IF ~c2[s] THEN [res |-> FALSE, value |-> c2, out |-> "value"]
       ELSE allLoop(list, i + 1, c2, g)

some_as_all(pb, c, g) == allLoop(loopScopes(pb.branch), 1, c, g)

\* a getter that threw: nothing returned, the Map as it was
Thrown(c) == [res |-> FALSE, value |-> c, out |-> "TypeError"]

\* get $some() of PermitBranch pb, read with Map c and granted list g: what
\* it returns, the Map it leaves and whether it returned or threw
some(pb, c, g) ==
  IF loopScopesThrows(pb.branch) THEN Thrown(c)
  ELSE someLoop(loopScopes(pb.branch), 1, c, g)

\* get $none()
none(pb, c, g) ==
  IF loopScopesThrows(pb.branch) THEN Thrown(c)
  ELSE noneLoop(loopScopes(pb.branch), 1, c, g)

all_as_some(pb, c, g) == someLoop(loopScopes(pb.branch), 1, c, g)

\* get $all()
all(pb, c, g) ==
  IF loopScopesThrows(pb.branch) THEN Thrown(c)
  ELSE allLoop(loopScopes(pb.branch), 1, c, g)

mapAccessNode_any_entry(v, c) ==
  SelectSeq(scopes(access), LAMBDA node : node.scope \in DOMAIN c)

\* mapAccessNode(v): the nodes of access.$scopes whose scope is a key with
\* value v; when the schema has a key "$scopes" holding an array, access.$scopes
\* is that array
mapAccessNode(v, c) ==
  SelectSeq(loopScopes(access),
            LAMBDA node : \E k \in DOMAIN c : c[k] = v /\ k = node.scope)

\* access.$scopes.filter is not a function: the schema has a key "$scopes"
\* that holds a leaf or a branch
mapAccessNodeThrows == HasChild(access, "$scopes") /\ Child(access, "$scopes").kind # "array"

\* access.$each((node) => $value.set(node.$scope, granted.includes(node.$scope)))
RECURSIVE seedEach(_, _, _)
seedEach(nodes, c, g) ==
  IF Len(nodes) = 0 THEN c
  ELSE seedEach(Tail(nodes), MapSet(c, nodes[1].scope, Includes(g, nodes[1].scope)), g)

reset_only_granted(acc, g) ==
  [k \in {x \in ScopeSet(scopes(acc)) : Includes(g, x)} |-> TRUE]

reset_seeds_granted(acc, g) ==
  [k \in ScopeSet(scopes(acc)) \cup Range(g) |-> Includes(g, k)]

\* the Map after $value.clear() and the $each pass of reset()
reset(acc, g) == seedEach(scopes(acc), EmptyMap, g)

setLoop_deny_deletes(v, list, c) ==
  [k \in (IF v THEN DOMAIN c ELSE DOMAIN c \ Range(list)) |->
     IF k \in Range(list) THEN v ELSE c[k]]

\* the for loop of setScopeValue: the Map after it
RECURSIVE setLoop(_, _, _)
setLoop(v, list, c) ==
  IF Len(list) = 0 THEN c
  ELSE setLoop(v, Tail(list), IF list[1] \in DOMAIN c THEN MapSet(c, list[1], v) ELSE c)

\* an object identity no live snapshot has
FreshId(live) == CHOOSE i \in 0..(NumIds - 1) :
                   i \notin live /\ \A j \in 0..(NumIds - 1) : j \notin live => i <= j

HeldIds == IF held.kind = "none" THEN {} ELSE {held.snap.id}

\* permit = generate(access), after the snapshot prev
regenerate(prev) == [id |-> FreshId(HeldIds \cup {prev.id}), root |-> generate(access)]

\* a mutation happened after the caller took its reference
Touch == IF held.kind = "none" THEN held ELSE [held EXCEPT !.mutated = TRUE]

\* the record of a call: the method, its arguments, the leaf or branch it was
\* read at, the boolean returned, the list returned, whether the read added a
\* cache entry, how many times the call ran generate(access), how many
\* reset() calls in a row this is, and how the call ended: with the value
\* recorded, with a PermitNode in place of a boolean (in list), or with a
\* TypeError
Call(op, args, at, res) ==
  [op |-> op, args |-> args, at |-> at, res |-> res,
   list |-> <<>>, seeded |-> FALSE, gens |-> 0, run |-> 0, out |-> "value"]

\* access.$permit(granted) throws a TypeError and gives no Permit: the
\* schema has a key "$permit", so access.$permit is a child and no method,
\* or a key "$each", so the access.$each(..) of reset() is no call of a method
generatePermitThrows(acc) == HasChild(acc, "$permit") \/ HasChild(acc, "$each")

\* createSchema returns for the fixture and $permit on its branch gives a Permit
Constructs(f) ==
  /\ ~generateAccessThrows(f.prefix, f.schema, "", f.spacer)
  /\ ~generatePermitThrows(Member(createSchema(f.schema, f.prefix, f.spacer), f.sub))

Init ==
  \E f \in {k \in DOMAIN Fixtures : Constructs(Fixtures[k])} :
    \E g \in ListsUpTo(Universe(Fixtures[f]), MaxGranted) :
      /\ access = Member(createSchema(Fixtures[f].schema, Fixtures[f].prefix,
                                      Fixtures[f].spacer), Fixtures[f].sub)
      /\ input = [schema |-> Fixtures[f].schema, prefix |-> Fixtures[f].prefix,
                  spacer |-> Fixtures[f].spacer, sub |-> Fixtures[f].sub, granted |-> g]
      /\ other = NoPermit
      /\ granted = g
      /\ value = reset(access, g)
      /\ permit = [id |-> 0, root |-> generate(access)]
      /\ held = NoSnap
      /\ lastCall = Call("new", g, 0, FALSE)

\* the scope strings the caller passes to grant, deny and check
Args ==
  ScopeSet(scopes(access)) \cup ScopeSet(loopScopes(access)) \cup Range(granted)
    \cup {Unknown}

setScopeValue_no_regenerate(v, list) ==
  /\ value' = setLoop(v, list, value)
  /\ permit' = permit
  /\ held' = Touch
  /\ lastCall' = [Call(IF v THEN "grant" ELSE "deny", list, 0, FALSE) EXCEPT !.gens = 1]
  /\ UNCHANGED <<input, other, access, granted>>

setScopeValue_first_only(v, list) ==
  /\ value' = setLoop(v, IF Len(list) = 0 THEN list ELSE <<list[1]>>, value)
  /\ permit' = regenerate(permit)
  /\ held' = Touch
  /\ lastCall' = [Call(IF v THEN "grant" ELSE "deny", list, 0, FALSE) EXCEPT !.gens = 1]
  /\ UNCHANGED <<input, other, access, granted>>

setScopeValue_creates(v, list) ==
  /\ value' = [k \in DOMAIN value \cup Range(list) |->
                 IF k \in Range(list) THEN v ELSE value[k]]
  /\ permit' = regenerate(permit)
  /\ held' = Touch
  /\ lastCall' = [Call(IF v THEN "grant" ELSE "deny", list, 0, FALSE) EXCEPT !.gens = 1]
  /\ UNCHANGED <<input, other, access, granted>>

\* permit = generate(access) n times in a row
RECURSIVE regenerateTimes(_, _)
regenerateTimes(prev, n) ==
  IF n = 0 THEN prev ELSE regenerateTimes(regenerate(prev), n - 1)

setScopeValue_regenerates_each(v, list) ==
  /\ value' = setLoop(v, list, value)
  /\ permit' = regenerateTimes(permit, Len(list))
  /\ held' = Touch
  /\ lastCall' = [Call(IF v THEN "grant" ELSE "deny", list, 0, FALSE)
                    EXCEPT !.gens = Len(list)]
  /\ UNCHANGED <<input, other, access, granted>>

setScopeValue_shared_cache(v, list) ==
  /\ value' = setLoop(v, list, value)
  /\ permit' = regenerate(permit)
  /\ held' = Touch
  /\ lastCall' = [Call(IF v THEN "grant" ELSE "deny", list, 0, FALSE) EXCEPT !.gens = 1]
  /\ other' = IF other.kind = "none" THEN other
              ELSE [other EXCEPT !.value = setLoop(v, list, other.value)]
  /\ UNCHANGED <<input, access, granted>>

setScopeValue(v, list) ==
  /\ value' = setLoop(v, list, value)
  /\ permit' = regenerate(permit)
  /\ held' = Touch
  /\ lastCall' = [Call(IF v THEN "grant" ELSE "deny", list, 0, FALSE) EXCEPT !.gens = 1]
  /\ UNCHANGED <<input, other, access, granted>>

\* permit.grant(...list)
Permit_grant == \E list \in SublistsUpTo(Args, MaxArgs) : setScopeValue(TRUE, list)

\* permit.deny(...list)
Permit_deny == \E list \in SublistsUpTo(Args, MaxArgs) : setScopeValue(FALSE, list)

Permit_reset_consumes_granted ==
  /\ value' = reset(access, granted)
  /\ permit' = regenerateTimes(permit, 2)
  /\ held' = Touch
  /\ lastCall' = [Call("reset", <<>>, 0, FALSE)
                    EXCEPT !.gens = 2, !.run = IF lastCall.op = "reset" THEN 2 ELSE 1]
  /\ granted' = <<>>
  /\ UNCHANGED <<input, other, access>>

\* permit.reset(): reset(), which regenerates, and a second generate(access)
Permit_reset ==
  /\ value' = reset(access, granted)
  /\ permit' = LET first == regenerate(permit)
               IN [id |-> FreshId(HeldIds \cup {first.id}), root |-> generate(access)]
  /\ held' = Touch
  /\ lastCall' = [Call("reset", <<>>, 0, FALSE)
                    EXCEPT !.gens = 2, !.run = IF lastCall.op = "reset" THEN 2 ELSE 1]
  /\ UNCHANGED <<input, other, access, granted>>

\* permit.check(scope): what it returns with Map c
check(scope, c) == GetOrFalse(c, scope)

Permit_check_seeds ==
  \E scope \in Args :
    /\ value' = IF scope \in DOMAIN value THEN value
                ELSE MapSet(value, scope, Includes(granted, scope))
    /\ lastCall' = Call("check", <<scope>>, 0, check(scope, value'))
    /\ UNCHANGED <<input, other, access, granted, permit, held>>

\* a call of permit.check(scope)
Permit_check ==
  \E scope \in Args :
    /\ lastCall' = Call("check", <<scope>>, 0, check(scope, value))
    /\ UNCHANGED <<input, other, access, granted, value, permit, held>>

\* permit.is.<leaf>.$ok and .$no, for the i-th leaf of the current snapshot
Read_ok ==
  \E i \in DOMAIN Leaves(permit.root) :
    /\ lastCall' = Call("$ok", <<>>, i, ok(Leaves(permit.root)[i], value))
    /\ UNCHANGED <<input, other, access, granted, value, permit, held>>

Read_no ==
  \E i \in DOMAIN Leaves(permit.root) :
    /\ lastCall' = Call("$no", <<>>, i, no(Leaves(permit.root)[i], value))
    /\ UNCHANGED <<input, other, access, granted, value, permit, held>>

\* the PermitBranch has a child under the key
PermitHasChild(pb, key) == \E j \in DOMAIN pb.childs : pb.childs[j].key = key

PermitChild(pb, key) ==
  pb.childs[CHOOSE j \in DOMAIN pb.childs : pb.childs[j].key = key].val

\* a read of pb[name] for name $some, $none or $all of the i-th branch pb,
\* where getter is what the getter of that name returns: the PermitBranch
\* literal ends with
\* ...childs, so a child of that name (a PermitNode) is what the read gives
ReadAggregate(name, i, pb, getter) ==
  /\ value' = IF PermitHasChild(pb, name) THEN value ELSE getter.value
  /\ lastCall' = IF PermitHasChild(pb, name)
                 THEN [Call(name, <<>>, i, TRUE)
                         EXCEPT !.list = <<PermitChild(pb, name)>>, !.out = "node"]
                 ELSE [Call(name, <<>>, i, getter.res)
                         EXCEPT !.seeded = (getter.value # value), !.out = getter.out]

\* permit.is.<branch>.$some, .$none and .$all, for the i-th branch
Read_some ==
  \E i \in DOMAIN Branches(permit.root) :
    \E pb \in {Branches(permit.root)[i]} :
      \E getter \in {some(pb, value, granted)} :
        /\ ReadAggregate("$some", i, pb, getter)
        /\ UNCHANGED <<input, other, access, granted, permit, held>>

Read_none ==
  \E i \in DOMAIN Branches(permit.root) :
    \E pb \in {Branches(permit.root)[i]} :
      \E getter \in {none(pb, value, granted)} :
        /\ ReadAggregate("$none", i, pb, getter)
        /\ UNCHANGED <<input, other, access, granted, permit, held>>

Read_all ==
  \E i \in DOMAIN Branches(permit.root) :
    \E pb \in {Branches(permit.root)[i]} :
      \E getter \in {all(pb, value, granted)} :
        /\ ReadAggregate("$all", i, pb, getter)
        /\ UNCHANGED <<input, other, access, granted, permit, held>>

\* the properties the PermitBranch literal defines before ...childs, in order
PermitBuiltins == <<"$scopes", "$some", "$none", "$all", "toJSON">>

IsPermitBuiltin(key) == \E i \in DOMAIN PermitBuiltins : PermitBuiltins[i] = key

\* what the copy made by ...rest holds under the key $some, $none or $all:
\* the PermitNode that ...childs put in place of the getter, or the boolean
\* the getter returned
restEntry(pb, name, getter) ==
  [key |-> name,
   val |-> IF PermitHasChild(pb, name) THEN PermitChild(pb, name)
           ELSE [kind |-> "boolean", value |-> getter.res]]

\* toJSON() of PermitBranch pb, called with Map c and granted list g:
\* const { $scopes, ...rest } = this copies every own enumerable property
\* of pb but $scopes, in property order (index keys first, then the literal's
\* own names, then the other childs), and so reads the getters $some, $none
\* and $all one after the other, each on the Map the one before left; a
\* getter that throws ends the call. Gives rest, the Map after the call and
\* whether the call returned or threw
toJSON(pb, c, g) ==
  LET isGetter(name) == ~PermitHasChild(pb, name)
      s  == some(pb, c, g)
      cs == IF isGetter("$some") THEN s.value ELSE c
      ts == isGetter("$some") /\ s.out = "TypeError"
      n  == none(pb, cs, g)
      cn == IF isGetter("$none") THEN n.value ELSE cs
      tn == isGetter("$none") /\ n.out = "TypeError"
      a  == all(pb, cn, g)
      ca == IF isGetter("$all") THEN a.value ELSE cn
      ta == isGetter("$all") /\ a.out = "TypeError"
  IN IF ts THEN [rest |-> <<>>, value |-> cs, out |-> "TypeError"]
     ELSE IF tn THEN [rest |-> <<>>, value |-> cn, out |-> "TypeError"]
     ELSE IF ta THEN [rest |-> <<>>, value |-> ca, out |-> "TypeError"]
     ELSE [rest |-> SelectSeq(pb.childs, LAMBDA e : IsIndexKey(e.key))
                      \o <<restEntry(pb, "$some", s), restEntry(pb, "$none", n),
                            restEntry(pb, "$all", a),
                            [key |-> "toJSON", val |-> [kind |-> "function"]]>>
                      \o SelectSeq(pb.childs,
                                   LAMBDA e : ~IsIndexKey(e.key) /\ ~IsPermitBuiltin(e.key)),
           value |-> ca, out |-> "value"]

\* permit.is.<branch>.toJSON(), for the i-th branch (JSON.stringify calls
\* it on every branch it serialises): a child under the key toJSON stands in
\* place of the method, and calling it is a TypeError
PermitBranch_toJSON ==
  \E i \in DOMAIN Branches(permit.root) :
    \E pb \in {Branches(permit.root)[i]} :
      \E r \in {IF PermitHasChild(pb, "toJSON")
                 THEN [rest |-> <<>>, value |-> value, out |-> "TypeError"]
                 ELSE toJSON(pb, value, granted)} :
        /\ value' = r.value
        /\ lastCall' = [Call("toJSON", <<>>, i, FALSE)
                          EXCEPT !.list = r.rest, !.seeded = (r.value # value),
                                 !.out = r.out]
        /\ UNCHANGED <<input, other, access, granted, permit, held>>

\* permit.granted and permit.denied
Read_granted ==
  /\ lastCall' = [Call("granted", <<>>, 0, FALSE)
                    EXCEPT !.list = mapAccessNode(TRUE, value),
                           !.out = IF mapAccessNodeThrows THEN "TypeError" ELSE "value"]
  /\ UNCHANGED <<input, other, access, granted, value, permit, held>>

Read_denied ==
  /\ lastCall' = [Call("denied", <<>>, 0, FALSE)
                    EXCEPT !.list = mapAccessNode(FALSE, value),
                           !.out = IF mapAccessNodeThrows THEN "TypeError" ELSE "value"]
  /\ UNCHANGED <<input, other, access, granted, value, permit, held>>

Next ==
  \/ Read_granted
  \/ Read_denied
  \/ Permit_reset
  \/ Permit_grant
  \/ Permit_deny
  \/ Permit_check
  \/ Read_ok
  \/ Read_no
  \/ Read_some
  \/ Read_none
  \/ Read_all
  \/ PermitBranch_toJSON

Spec == Init /\ [][Next]_vars

\* what the caller gets from pb[name] and the Map after the read, where
\* getter is what the getter of that name gives with Map c: the PermitNode
\* that ...childs put in place of the getter, "TypeError" when the getter
\* throws, the boolean it returns otherwise
readOf(pb, name, getter, c) ==
  IF PermitHasChild(pb, name) THEN [res |-> PermitChild(pb, name), value |-> c]
  ELSE IF getter.out = "TypeError" THEN [res |-> "TypeError", value |-> c]
  ELSE [res |-> getter.res, value |-> getter.value]

\* reading every predicate of a list of PermitBranches in turn: what $some,
\* $none and $all return and the Map the reads leave
RECURSIVE observeBranches(_, _, _)
observeBranches(list, c, g) ==
  IF Len(list) = 0 THEN [obs |-> <<>>, value |-> c]
  ELSE
    LET s == readOf(list[1], "$some", some(list[1], c, g), c)
        n == readOf(list[1], "$none", none(list[1], s.value, g), s.value)
        a == readOf(list[1], "$all", all(list[1], n.value, g), n.value)
        rest == observeBranches(Tail(list), a.value, g)
    IN [obs |-> <<[some |-> s.res, none |-> n.res, all |-> a.res]>> \o rest.obs,
        value |-> rest.value]

\* reading $ok and $no of every leaf and $some, $none and $all of every
\* branch of the predicate tree root
observe(root, c, g) ==
  LET b == observeBranches(Branches(root), c, g)
  IN [obs |-> [leaves |-> [i \in DOMAIN Leaves(root) |->
                             [ok |-> ok(Leaves(root)[i], c), no |-> no(Leaves(root)[i], c)]],
               branches |-> b.obs],
      value |-> b.value]

\* const snap = permit.is, after which the caller reads every predicate of snap
hold ==
  LET o == observe(permit.root, value, granted)
  IN /\ held' = [kind |-> "snap", snap |-> permit, obs |-> o.obs, mutated |-> FALSE]
     /\ value' = o.value
     /\ lastCall' = Call("is", <<>>, 0, FALSE)
     /\ UNCHANGED <<input, other, access, granted, permit>>

\* a permit on the action branch of the todo schema, whose caller keeps snapshots
InitHeld ==
  \E g \in ListsUpTo(Universe(Fixtures[5]), MaxGrantedHeld) :
    /\ Constructs(Fixtures[5])
    /\ access = Member(createSchema(Fixtures[5].schema, Fixtures[5].prefix,
                                    Fixtures[5].spacer), Fixtures[5].sub)
    /\ input = [schema |-> Fixtures[5].schema, prefix |-> Fixtures[5].prefix,
                spacer |-> Fixtures[5].spacer, sub |-> Fixtures[5].sub, granted |-> g]
    /\ other = NoPermit
    /\ granted = g
    /\ value = reset(access, g)
    /\ permit = [id |-> 0, root |-> generate(access)]
    /\ held = NoSnap
    /\ lastCall = Call("new", g, 0, FALSE)

NextHeld ==
  \/ hold
  \/ Permit_reset
  \/ Permit_grant
  \/ Permit_deny

SpecHeld == InitHeld /\ [][NextHeld]_vars

\* the caller changes the array it passed as granted
Caller_mutates ==
  \E g \in ListsUpTo(Universe(input), MaxGrantedHeld) :
    /\ g # granted
    /\ granted' = g
    /\ lastCall' = Call("caller", g, 0, FALSE)
    /\ UNCHANGED <<input, other, access, value, permit, held>>

NextAlias ==
  \/ Caller_mutates
  \/ Permit_reset
  \/ Permit_check
  \/ Read_some

SpecAlias == InitHeld /\ [][NextAlias]_vars

\* access.$permit(g) and access.$permit(g2) on the compiled todo subtree
InitTwo ==
  \E g \in SublistsUpTo(Universe(Fixtures[6]), MaxGrantedHeld) :
    \E g2 \in SublistsUpTo(Universe(Fixtures[6]), MaxGrantedHeld) :
      /\ Constructs(Fixtures[6])
      /\ access = Member(createSchema(Fixtures[6].schema, Fixtures[6].prefix,
                                      Fixtures[6].spacer), Fixtures[6].sub)
      /\ input = [schema |-> Fixtures[6].schema, prefix |-> Fixtures[6].prefix,
                  spacer |-> Fixtures[6].spacer, sub |-> Fixtures[6].sub, granted |-> g]
      /\ other = [kind |-> "permit", granted |-> g2, value |-> reset(access, g2)]
      /\ granted = g
      /\ value = reset(access, g)
      /\ permit = [id |-> 0, root |-> generate(access)]
      /\ held = NoSnap
      /\ lastCall = Call("new", g, 0, FALSE)

\* grant(scope) or deny(scope) on the second permit
Other_set ==
  \E v \in BOOLEAN :
    \E scope \in ScopeSet(scopes(access)) \cup {Unknown} :
      /\ other' = [other EXCEPT !.value = setLoop(v, <<scope>>, other.value)]
      /\ lastCall' = Call(IF v THEN "other.grant" ELSE "other.deny", <<scope>>, 0, FALSE)
      /\ UNCHANGED <<input, access, granted, value, permit, held>>

NextTwo ==
  \/ Other_set
  \/ Permit_reset
  \/ Permit_grant
  \/ Permit_deny

SpecTwo == InitTwo /\ [][NextTwo]_vars

\* schemas whose keys are names the library uses itself
\* $scope and $description as strings at the root, which is never an override
SchemaRootShape ==
  Obj(<<E("$scope", Str("S")), E("$description", Str("D")), E("a", Str("A"))>>)

\* a leaf named as the $scopes getter of a branch
SchemaScopesKey == Obj(<<E("$scopes", Str("X")), E("a", Str("A"))>>)

\* a leaf named as the $some getter of a PermitBranch
SchemaSomeKey == Obj(<<E("$some", Str("X")), E("a", Str("A"))>>)

\* a nested branch with a key named as the $each method
SchemaEachKey ==
  Obj(<<E("p", Obj(<<E("$each", Obj(<<E("k", Str("K"))>>)), E("a", Str("A"))>>)),
        E("b", Str("B"))>>)

\* a branch named as the $scopes getter, whose length is a branch that cannot
\* be converted to a number
SchemaLengthKey ==
  Obj(<<E("$scopes", Obj(<<E("length", Obj(<<E("valueOf", Str("x")),
                                             E("toString", Str("y"))>>))>>)),
        E("a", Str("A"))>>)

\* an array of one node under the key $scopes: what the loops of $some,
\* $none and $all visit, and what $each, which reset() uses, passes by
SchemaScopesList ==
  Obj(<<E("$scopes", Arr(<<[kind |-> "node", scope |-> "x", description |-> "d"]>>)),
        E("a", Str("A"))>>)

\* an own key "__proto__" holding a branch, as JSON.parse gives it
SchemaProtoKey == Obj(<<E("a", Str("A")), E("__proto__", Obj(<<E("b", Str("B"))>>))>>)

\* a key named as the $permit method: $permit(granted) throws
SchemaPermitKey == Obj(<<E("$permit", Str("X")), E("a", Str("A"))>>)

KeyFixtures ==
  << [schema |-> SchemaRootShape, prefix |-> "", spacer |-> ".", sub |-> <<>>],
     [schema |-> SchemaScopesKey, prefix |-> "", spacer |-> ".", sub |-> <<>>],
     [schema |-> SchemaSomeKey,   prefix |-> "", spacer |-> ".", sub |-> <<>>],
     [schema |-> SchemaEachKey,   prefix |-> "", spacer |-> ".", sub |-> <<>>],
     [schema |-> SchemaProtoKey,  prefix |-> "", spacer |-> ".", sub |-> <<>>],
     [schema |-> SchemaPermitKey, prefix |-> "", spacer |-> ".", sub |-> <<>>],
     [schema |-> SchemaOdd,       prefix |-> "@", spacer |-> "-", sub |-> <<>>],
     [schema |-> SchemaLengthKey, prefix |-> "", spacer |-> ".", sub |-> <<>>],
     [schema |-> SchemaScopesList, prefix |-> "", spacer |-> ".", sub |-> <<>>] >>

\* a permit of one of these schemas, where $permit gives one
InitKeys ==
  \E f \in {k \in DOMAIN KeyFixtures : Constructs(KeyFixtures[k])} :
    \E g \in SublistsUpTo(Universe(KeyFixtures[f]), MaxGrantedHeld) :
      /\ access = Member(createSchema(KeyFixtures[f].schema, KeyFixtures[f].prefix,
                                      KeyFixtures[f].spacer), KeyFixtures[f].sub)
      /\ input = [schema |-> KeyFixtures[f].schema, prefix |-> KeyFixtures[f].prefix,
                  spacer |-> KeyFixtures[f].spacer, sub |-> KeyFixtures[f].sub,
                  granted |-> g]
      /\ other = NoPermit
      /\ granted = g
      /\ value = reset(access, g)
      /\ permit = [id |-> 0, root |-> generate(access)]
      /\ held = NoSnap
      /\ lastCall = Call("new", g, 0, FALSE)

SpecKeys == InitKeys /\ [][Next]_vars

\* ------------------------------------------------------------- properties
\* the scope strings of the tree the permit was created from: those of the
\* nodes access.$each hands to reset()
TreeScopes == ScopeSet(each(access))

\* the PermitNodes of the current snapshot whose scope is s
LeavesFor(s) == {i \in DOMAIN Leaves(permit.root) : Leaves(permit.root)[i].scope = s}

\* some scope of the list has cached value true
AnyTrue(list) == \E j \in DOMAIN list : list[j].scope \in DOMAIN value /\ value[list[j].scope]

\* every scope of the list has cached value true
EveryTrue(list) == \A j \in DOMAIN list : list[j].scope \in DOMAIN value /\ value[list[j].scope]

\* C1: for every branch of the predicate tree, $some is true exactly when a
\* scope of the branch's own scopes list has cached value true (false for an
\* empty list), and $none is the negation of $some (true for an empty list).
C1_SomeNone ==
  \A i \in DOMAIN Branches(permit.root) :
    LET pb == Branches(permit.root)[i]
    IN /\ some(pb, value, granted).res = AnyTrue(scopes(pb.branch))
       /\ none(pb, value, granted).res = ~some(pb, value, granted).res

\* $some was read true on a branch of two scopes of which exactly one is granted
C1_Witness ==
  /\ lastCall.op = "$some"
  /\ lastCall.res
  /\ LET list == scopes(Branches(permit.root)[lastCall.at].branch)
     IN /\ Len(list) = 2
        /\ ~value[list[1].scope]
        /\ value[list[2].scope]

\* C2: for every branch whose scopes list is not empty, $all is true exactly
\* when every scope of the list has cached value true.
C2_All ==
  \A i \in DOMAIN Branches(permit.root) :
    LET pb == Branches(permit.root)[i]
    IN Len(scopes(pb.branch)) > 0 =>
         all(pb, value, granted).res = EveryTrue(scopes(pb.branch))

\* $all was read true on a branch of two different scopes
C2_Witness ==
  /\ lastCall.op = "$all"
  /\ lastCall.res
  /\ LET list == scopes(Branches(permit.root)[lastCall.at].branch)
     IN Len(list) = 2 /\ list[1].scope # list[2].scope

\* C3: every branch whose scopes list is empty reports $all false and $none
\* true.
C3_EmptyBranch ==
  \A i \in DOMAIN Branches(permit.root) :
    LET pb == Branches(permit.root)[i]
    IN Len(scopes(pb.branch)) = 0 =>
         /\ all(pb, value, granted).res = FALSE
         /\ none(pb, value, granted).res = TRUE

\* C4: right after grant(.., s, ..) with s a scope of the tree, check(s) is
\* true and the leaf of s has $ok true and $no false; right after
\* deny(.., s, ..) check(s) is false, $ok false and $no true.
C4_GrantDeny ==
  lastCall.op \in {"grant", "deny"} =>
    \A s \in Range(lastCall.args) \cap TreeScopes :
      /\ check(s, value) = (lastCall.op = "grant")
      /\ \A i \in LeavesFor(s) :
           /\ ok(Leaves(permit.root)[i], value) = (lastCall.op = "grant")
           /\ no(Leaves(permit.root)[i], value) = (lastCall.op = "deny")

\* a grant of two scopes of the tree, the second of which has a leaf and was
\* not in the granted list
C4_Witness ==
  /\ lastCall.op = "grant"
  /\ Len(lastCall.args) = 2
  /\ lastCall.args[1] \in TreeScopes
  /\ lastCall.args[2] \in TreeScopes
  /\ lastCall.args[1] # lastCall.args[2]
  /\ ~Includes(granted, lastCall.args[2])
  /\ LeavesFor(lastCall.args[2]) # {}

\* C5: right after construction and right after reset(), the cache has an
\* entry for every scope of the access tree, and only for those, and each
\* entry tells whether the scope is in the granted list.
C5_ResetSeeds ==
  lastCall.op \in {"new", "reset"} =>
    /\ DOMAIN value = TreeScopes
    /\ \A s \in TreeScopes : value[s] = Includes(granted, s)

\* a reset of a permit with a granted and a denied scope
C5_Witness ==
  /\ lastCall.op = "reset"
  /\ \E s \in DOMAIN value : value[s]
  /\ \E s \in DOMAIN value : ~value[s]

\* C6: right after reset(), check(scope) is false and $ok is false for every
\* scope of the tree.
C6_ResetDeniesAll ==
  lastCall.op = "reset" =>
    /\ \A s \in TreeScopes : ~check(s, value)
    /\ \A i \in DOMAIN Leaves(permit.root) : ~ok(Leaves(permit.root)[i], value)

\* C7 as stated: a snapshot the caller took before a grant, deny or reset
\* reports after it the values it reported when taken, and `is` is then
\* another object.
C7_SnapshotFrozen ==
  (held.kind = "snap" /\ held.mutated) =>
    /\ observe(held.snap.root, value, granted).obs = held.obs
    /\ permit.id # held.snap.id

\* C7 amended: a snapshot the caller took before a grant, deny or reset is
\* another object than the one `is` returns after it, and every predicate of
\* the old snapshot reads the current cache: $ok is check of the leaf's
\* scope, and all its predicates equal those of the new snapshot.
C7_SnapshotReadsThrough ==
  (held.kind = "snap" /\ held.mutated) =>
    /\ permit.id # held.snap.id
    /\ \A i \in DOMAIN Leaves(held.snap.root) :
         ok(Leaves(held.snap.root)[i], value)
           = check(Leaves(held.snap.root)[i].scope, value)
    /\ observe(held.snap.root, value, granted).obs
         = observe(permit.root, value, granted).obs

\* a held snapshot that read $ok false on its leaf reads it true after a grant
C7_Witness ==
  /\ held.kind = "snap"
  /\ held.mutated
  /\ lastCall.op = "grant"
  /\ Len(held.obs.leaves) > 0
  /\ ~held.obs.leaves[1].ok
  /\ ok(Leaves(held.snap.root)[1], value)

\* C8: a call of check(scope) returns the cached boolean of the scope, or
\* false when the scope has no entry, and leaves the cache and the current
\* snapshot as they were.
C8_CheckPure ==
  [][lastCall'.op = "check" =>
       /\ value' = value
       /\ permit' = permit
       /\ lastCall'.res = (IF lastCall'.args[1] \in DOMAIN value
                           THEN value[lastCall'.args[1]] ELSE FALSE)]_vars

\* check of a scope that is in the granted list but has no cache entry
C8_Witness ==
  /\ lastCall.op = "check"
  /\ lastCall.args[1] \notin DOMAIN value
  /\ Includes(granted, lastCall.args[1])
  /\ ~lastCall.res

\* C9: for every leaf of the current predicate tree, $ok equals check of the
\* leaf's scope and $no is the negation of $ok.
C9_OkNo ==
  \A i \in DOMAIN Leaves(permit.root) :
    LET node == Leaves(permit.root)[i]
    IN /\ ok(node, value) = check(node.scope, value)
       /\ no(node, value) = ~ok(node, value)

\* $no was read true on a leaf while another leaf is granted
C9_Witness ==
  /\ lastCall.op = "$no"
  /\ lastCall.res
  /\ \E i \in DOMAIN Leaves(permit.root) : ok(Leaves(permit.root)[i], value)

\* C10: a grant or deny call keeps the key set of the cache, gives the
\* listed scopes that have an entry the call's value, and leaves every other
\* entry as it was.
C10_SetFrame ==
  [][lastCall'.op \in {"grant", "deny"} =>
       /\ DOMAIN value' = DOMAIN value
       /\ \A s \in DOMAIN value :
            value'[s] = IF s \in Range(lastCall'.args)
                        THEN (lastCall'.op = "grant") ELSE value[s]]_vars

\* a grant that lists an unknown scope and a scope of the tree, with another
\* scope of the tree left denied
C10_Witness ==
  /\ lastCall.op = "grant"
  /\ \E s \in Range(lastCall.args) : s \notin DOMAIN value
  /\ \E s \in Range(lastCall.args) : s \in DOMAIN value /\ ~Includes(granted, s)
  /\ \E s \in DOMAIN value : s \notin Range(lastCall.args) /\ ~value[s]

\* the nodes of a list whose scope has cached value v, in the list's order
RECURSIVE Keep(_, _)
Keep(list, v) ==
  IF Len(list) = 0 THEN <<>>
  ELSE (IF list[1].scope \in DOMAIN value /\ value[list[1].scope] = v
        THEN <<list[1]>> ELSE <<>>)
       \o Keep(Tail(list), v)

\* C11: the granted accessor is the sublist of the access tree's scopes list
\* whose scope has cached value true, denied the sublist whose scope has
\* cached value false, both in the order of the scopes list; a scope without
\* entry is in neither.
C11_GrantedDenied ==
  /\ mapAccessNode(TRUE, value) = Keep(scopes(access), TRUE)
  /\ mapAccessNode(FALSE, value) = Keep(scopes(access), FALSE)
  /\ lastCall.op = "granted" => lastCall.list = Keep(scopes(access), TRUE)
  /\ lastCall.op = "denied" => lastCall.list = Keep(scopes(access), FALSE)

\* granted was read on a permit of two scopes and returned the second only
C11_Witness ==
  /\ lastCall.op = "granted"
  /\ Len(scopes(access)) = 2
  /\ lastCall.list = <<scopes(access)[2]>>
  /\ scopes(access)[1].scope # scopes(access)[2].scope

\* the predicate tree pb has a leaf where the access branch acc has a leaf
\* and a branch where it has a branch, under the same keys
RECURSIVE Isomorphic(_, _)
Isomorphic(acc, pb) ==
  /\ \A i \in DOMAIN acc.childs :
       LET key == acc.childs[i].key
           child == acc.childs[i].val
       IN child.kind \in {"node", "branch"} =>
            \E j \in DOMAIN pb.childs :
              /\ pb.childs[j].key = key
              /\ pb.childs[j].val.kind = child.kind
              /\ child.kind = "branch" => Isomorphic(child, pb.childs[j].val)
  /\ \A j \in DOMAIN pb.childs :
       \E i \in DOMAIN acc.childs :
         /\ acc.childs[i].key = pb.childs[j].key
         /\ acc.childs[i].val.kind = pb.childs[j].val.kind

\* C12: every predicate-tree snapshot has a leaf at the key path of each
\* leaf of the access tree and a branch at the key path of each of its
\* nested branches, whatever the keys are.
C12_Isomorphic == Isomorphic(access, permit.root)

\* C13: a reset() that directly follows a reset() leaves the cache and every
\* $ok, $no, $some, $none and $all of the predicate tree as the first one
\* left them.
C13_ResetIdempotent ==
  [][(lastCall.op = "reset" /\ lastCall'.op = "reset") =>
       /\ value' = value
       /\ observe(permit'.root, value', granted').obs
            = observe(permit.root, value, granted).obs]_vars

\* the second of two resets in a row, on a permit with a granted scope,
\* after a call that was not a reset
C13_Witness ==
  /\ lastCall.op = "reset"
  /\ lastCall.run = 2
  /\ \E s \in DOMAIN value : value[s]

\* C18: a grant or deny call runs generate(access) once, whatever the number
\* of scopes listed, `is` then returns another object, and every listed
\* scope that has a leaf reads the call's value in it.
C18_OneRegeneration ==
  [][lastCall'.op \in {"grant", "deny"} =>
       /\ lastCall'.gens = 1
       /\ permit'.id # permit.id
       /\ \A i \in DOMAIN Leaves(permit'.root) :
            Leaves(permit'.root)[i].scope \in Range(lastCall'.args) =>
              ok(Leaves(permit'.root)[i], value') = (lastCall'.op = "grant")]_vars

\* a grant of two scopes, both with a leaf and neither in the granted list
C18_Witness ==
  /\ lastCall.op = "grant"
  /\ lastCall.gens = 1
  /\ Len(lastCall.args) = 2
  /\ \A k \in 1..2 :
       /\ LeavesFor(lastCall.args[k]) # {}
       /\ ~Includes(granted, lastCall.args[k])
       /\ value[lastCall.args[k]]

\* the leaves (strings and objects with a string $scope) under a list of
\* schema entries, depth first, each with its key path; nested objects are
\* visited in for..in order when forin is TRUE and as written otherwise
RECURSIVE SchemaLeaves(_, _, _)
SchemaLeaves(entries, path, forin) ==
  IF Len(entries) = 0 THEN <<>>
  ELSE
    LET e == entries[1]
        p == Append(path, e.key)
    IN (IF e.val.kind = "string" \/ HasStringProp(e.val, "$scope")
        THEN <<[path |-> p, val |-> e.val]>>
        ELSE IF e.val.kind = "object"
        THEN SchemaLeaves(IF forin THEN ForIn(e.val.entries) ELSE e.val.entries, p, forin)
        ELSE <<>>)
       \o SchemaLeaves(Tail(entries), path, forin)

\* schema.k1.k2...
RECURSIVE SchemaMember(_, _)
SchemaMember(node, path) ==
  IF Len(path) = 0 THEN node
  ELSE LET i == CHOOSE j \in DOMAIN node.entries : node.entries[j].key = path[1]
       IN SchemaMember(node.entries[i].val, Tail(path))

\* the leaves of the part of the schema the permit's branch was compiled from
InputLeaves(forin) ==
  LET node == SchemaMember(input.schema, input.sub)
  IN SchemaLeaves(IF forin THEN ForIn(node.entries) ELSE node.entries, <<>>, forin)

\* the key path of a leaf from the root of the schema, after the prefix
Segments(leaf) == <<input.prefix>> \o input.sub \o leaf.path

\* C14 as stated: the scope of a string leaf is its segments without the
\* empty ones, joined by the spacer.
C14_ScopeDropsEmpty ==
  \A i \in DOMAIN InputLeaves(TRUE) :
    LET leaf == InputLeaves(TRUE)[i]
        node == Member(access, leaf.path)
    IN leaf.val.kind = "string" =>
         /\ node.kind = "node"
         /\ node.scope = Join(SelectSeq(Segments(leaf), LAMBDA p : Len(p) > 0),
                              input.spacer)

\* C14 amended: the scope of a string leaf is its segments without the
\* empty ones and without those of white space only, joined by the spacer.
C14_ScopeDropsBlank ==
  \A i \in DOMAIN InputLeaves(TRUE) :
    LET leaf == InputLeaves(TRUE)[i]
        node == Member(access, leaf.path)
    IN leaf.val.kind = "string" =>
         /\ node.kind = "node"
         /\ node.scope = Join(SelectSeq(Segments(leaf),
                                        LAMBDA p : Len(p) > 0 /\ ~TrimIsEmpty(p)),
                              input.spacer)

\* a string leaf under a key of white space only got the scope "k"
C14_Witness ==
  \E i \in DOMAIN InputLeaves(TRUE) :
    LET leaf == InputLeaves(TRUE)[i]
    IN /\ leaf.val.kind = "string"
       /\ leaf.path = <<" ", "k">>
       /\ Member(access, leaf.path).scope = "k"

\* C15: a leaf with its own $scope string compiles to a node with that very
\* scope, under any path, prefix and spacer, and with its $description when
\* that is a string and "" otherwise.
C15_Override ==
  \A i \in DOMAIN InputLeaves(TRUE) :
    LET leaf == InputLeaves(TRUE)[i]
        node == Member(access, leaf.path)
    IN leaf.val.kind = "object" =>
         /\ node.kind = "node"
         /\ node.scope = StringProp(leaf.val, "$scope")
         /\ node.description = IF HasStringProp(leaf.val, "$description")
                               THEN StringProp(leaf.val, "$description") ELSE ""

\* under prefix @ and spacer -, an override whose $description is an object
\* compiled to its own scope and the description ""
C15_Witness ==
  /\ input.prefix = "@"
  /\ input.spacer = "-"
  /\ \E i \in DOMAIN InputLeaves(TRUE) :
       LET leaf == InputLeaves(TRUE)[i]
       IN /\ leaf.val.kind = "object"
          /\ \E j \in DOMAIN leaf.val.entries :
               /\ leaf.val.entries[j].key = "$description"
               /\ leaf.val.entries[j].val.kind = "object"
          /\ Member(access, leaf.path).scope = "dup"
          /\ Member(access, leaf.path).description = ""

\* the AccessNode a leaf of the schema compiles to
ExpectedNode(leaf) ==
  IF leaf.val.kind = "string" THEN
    [kind |-> "node",
     scope |-> Join(SelectSeq(Segments(leaf), LAMBDA p : Len(p) > 0 /\ ~TrimIsEmpty(p)),
                    input.spacer),
     description |-> leaf.val.text]
  ELSE
    [kind |-> "node",
     scope |-> StringProp(leaf.val, "$scope"),
     description |-> IF HasStringProp(leaf.val, "$description")
                     THEN StringProp(leaf.val, "$description") ELSE ""]

\* C16 as stated: in every state the scopes list of the permit's branch is
\* the list of the schema's leaves, depth first in the order the keys were
\* written.
C16_ScopesAsWritten ==
  scopes(access) = [i \in DOMAIN InputLeaves(FALSE) |-> ExpectedNode(InputLeaves(FALSE)[i])]

\* C16 amended: in every state the scopes list of the permit's branch is the
\* list of the schema's leaves, depth first in the order for..in visits the
\* keys: integer keys first, ascending, then the other keys as written.
C16_ScopesForIn ==
  scopes(access) = [i \in DOMAIN InputLeaves(TRUE) |-> ExpectedNode(InputLeaves(TRUE)[i])]

\* after a grant, the scopes list of the schema with an integer key written
\* last has that key's leaf first
C16_Witness ==
  /\ lastCall.op = "grant"
  /\ Len(lastCall.args) > 0
  /\ input.schema = SchemaNum
  /\ Len(scopes(access)) = 2
  /\ scopes(access)[1].scope = "1"
  /\ scopes(access)[2].scope = "b.c"

\* what the second permit answers: check of every scope a caller may pass
\* and every predicate of its tree
OtherResults(acc, o) ==
  [checks |-> [s \in ScopeSet(scopes(acc)) \cup {Unknown} |-> check(s, o.value)],
   preds |-> observe(generate(acc), o.value, o.granted).obs]

\* C17: a grant, deny or reset on one permit leaves the access tree and the
\* schema as they were and changes no check, $ok, $no, $some, $none or $all
\* of a second permit created from the same access tree. (The answers are
\* read from the access tree and the second permit's own Map and granted
\* list, so they are compared only when one of these changed.)
C17_Confined ==
  [][lastCall'.op \in {"grant", "deny", "reset"} =>
       /\ access' = access
       /\ input' = input
       /\ \/ other' = other
          \/ OtherResults(access', other') = OtherResults(access, other)]_vars

\* a grant on the first permit of a scope the second permit keeps denied
C17_Witness ==
  /\ other.kind = "permit"
  /\ lastCall.op = "grant"
  /\ \E s \in Range(lastCall.args) \cap TreeScopes :
       /\ ~Includes(granted, s)
       /\ value[s]
       /\ ~check(s, other.value)

\* C19: a read of $some, $none or $all, made by the caller or by toJSON(),
\* can add cache entries. Whenever one does, the snapshot is not
\* regenerated, every entry the cache had keeps its value, and each entry
\* added is for a scope that had none and holds whether the granted list
\* given at construction includes that scope.
C19_ReadSeedsFromGranted ==
  [][lastCall'.op \in {"$some", "$none", "$all", "toJSON"} =>
       /\ permit' = permit
       /\ granted' = input.granted
       /\ DOMAIN value \subseteq DOMAIN value'
       /\ \A s \in DOMAIN value : value'[s] = value[s]
       /\ \A s \in DOMAIN value' \ DOMAIN value :
            value'[s] = Includes(input.granted, s)
       /\ lastCall'.seeded <=> DOMAIN value' # DOMAIN value]_vars

\* on the snapshot made at construction, $some was read true and the read
\* added an entry for a granted scope that reset() had not seeded
C19_Witness ==
  /\ lastCall.op = "$some"
  /\ lastCall.out = "value"
  /\ lastCall.seeded
  /\ lastCall.res
  /\ permit.id = 0
  /\ \E s \in DOMAIN value \ TreeScopes :
       /\ Includes(input.granted, s)
       /\ value[s]

\* C20: right after reset(), every scope of the tree is cached as it was
\* listed in the granted array when the permit was created, whatever the
\* caller did to the array since.
C20_SeedsFromSnapshot ==
  lastCall.op = "reset" =>
    \A s \in TreeScopes : check(s, value) = Includes(input.granted, s)

\* C21: in every state the keys of the cache are exactly the scope strings
\* of the access tree the permit was created from, so no scope of the tree
\* is without entry, and every node of the scopes list is in exactly one of
\* the granted and the denied lists, which together are as long as it.
C21_CacheTotal ==
  /\ DOMAIN value = TreeScopes
  /\ \A i \in DOMAIN scopes(access) :
       (scopes(access)[i] \in Range(mapAccessNode(TRUE, value)))
         # (scopes(access)[i] \in Range(mapAccessNode(FALSE, value)))
  /\ Len(mapAccessNode(TRUE, value)) + Len(mapAccessNode(FALSE, value))
       = Len(scopes(access))

\* deny was called with a scope of the tree and an unknown one, on a permit
\* of at least two scopes of which one is still granted
C21_Witness ==
  /\ lastCall.op = "deny"
  /\ Unknown \in Range(lastCall.args)
  /\ \E s \in TreeScopes : s \in Range(lastCall.args) /\ ~value[s]
  /\ \E s \in TreeScopes : value[s]

\* C22: a scope string that is not a scope of the access tree the permit
\* was created from never checks true, be it a scope of the rest of the
\* compiled schema, an entry of the granted array or an unknown string, and
\* whatever was passed to grant before; a check call on it returned false.
C22_OutsideNeverTrue ==
  /\ \A s \in (Universe(input) \cup Range(granted)) \ TreeScopes : ~check(s, value)
  /\ (lastCall.op = "check" /\ lastCall.args[1] \notin TreeScopes) => ~lastCall.res

\* check returned false for a scope of the compiled schema that lies outside
\* the sub-branch the permit was created from and is in the granted array,
\* while a scope of the sub-branch is granted
C22_Witness ==
  /\ lastCall.op = "check"
  /\ lastCall.args[1] \notin TreeScopes
  /\ lastCall.args[1] # Unknown
  /\ Includes(granted, lastCall.args[1])
  /\ ~lastCall.res
  /\ \E s \in TreeScopes : value[s]

=============================================================================
